---- MODULE Spec2Model ----
(***************************************************************************)
(* Model of coding-challenge/main.py: the Alert and AlertGroup records,    *)
(* the SeverityLevel catalog and the operations of AlertProcessor          *)
(* (filter_alerts, group_alerts, calculate_incident_priority,              *)
(* get_alert_summary).                                                     *)
(*                                                                         *)
(* Strings are sequences of one-character strings, so that str.lower() is  *)
(* computed character by character.  A Python float is a decimal floating  *)
(* point number of Precision significant digits on a grid of 1/Unit: every *)
(* arithmetic operation rounds its exact result to the nearest             *)
(* representable number (ties to even), as IEEE-754 binary64 does at 53    *)
(* bits; with fewer digits the rounding shows on small numbers.            *)
(* An Optional argument is a set: {} is None and {x} is the value x.       *)
(***************************************************************************)
EXTENDS Integers, Sequences, FiniteSets

VARIABLES
    alerts,     \* self.alerts: [ref, items], the processor's list object
    loaded,     \* the items of self.alerts when the constructor returned
    now,        \* the UTC clock read by datetime.now(timezone.utc), minutes
    pc,         \* "idle", or "grouping" inside the loop of group_alerts
    op,         \* the last call: "init", "filter", "group", "score", "summary"
    args,       \* the arguments of the last call, and the clock when it was made
    status,     \* "ok", or the exception the last call raised
    ret,        \* the value the last call returned
    groups_dict,\* group_alerts' local dict, in insertion order: <<[key, group]>>
    gpos,       \* how many alerts the loop of group_alerts has handled
    prev        \* the call just before, when it was a group_alerts call too:
                \* its input, the groups it returned, and those groups now

vars == <<alerts, loaded, now, pc, op, args, status, ret, groups_dict, gpos, prev>>

----------------------------------------------------------------------------
(* Bounds of the model *)

MaxAlerts == 3
MaxScoreAlerts == 2
MaxSessionAlerts == 2
MaxNow == 2
Precision == 3

Unit == 10 * 10 * 10

----------------------------------------------------------------------------
(* Strings *)

UpperLetters == <<"A","B","C","D","E","F","G","H","I","J","K","L","M",
                  "N","O","P","Q","R","S","T","U","V","W","X","Y","Z">>
LowerLetters == <<"a","b","c","d","e","f","g","h","i","j","k","l","m",
                  "n","o","p","q","r","s","t","u","v","w","x","y","z">>

LowerChar(c) ==
    IF \E i \in DOMAIN UpperLetters : UpperLetters[i] = c
    THEN LowerLetters[CHOOSE i \in DOMAIN UpperLetters : UpperLetters[i] = c]
    ELSE c

\* str.lower()
Lower(s) == [i \in DOMAIN s |-> LowerChar(s[i])]

EmptyStr == <<>>
critical == <<"c","r","i","t","i","c","a","l">>
warning == <<"w","a","r","n","i","n","g">>
info == <<"i","n","f","o">>
Critical == <<"C","r","i","t","i","c","a","l">>
INFO == <<"I","N","F","O">>
payment_processor == <<"p","a","y","m","e","n","t","-","p","r","o","c","e","s","s","o","r">>
auth == <<"a","u","t","h">>
db == <<"d","b">>
DB == <<"D","B">>

\* Optional[...]: None, a value, and Python's truth test of "if x:"
None == {}
Some(x) == {x}
Val(o) == CHOOSE x \in o : TRUE

TruthyStr(o) == o # None /\ Val(o) # EmptyStr
TruthyInt(o) == o # None /\ Val(o) # 0

----------------------------------------------------------------------------
(* Floats: integers counting 1/Unit, rounded to Precision digits *)

RECURSIVE Pow10(_)
Pow10(k) == IF k = 0 THEN 1 ELSE 10 * Pow10(k - 1)

RECURSIVE Digits(_)
Digits(m) == IF m < 10 THEN 1 ELSE 1 + Digits(m \div 10)

Abs(x) == IF x < 0 THEN -x ELSE x

\* The representable number nearest to n/d (d > 0), ties to even.
RoundRat(n, d) ==
    LET a == Abs(n)
        len == Digits(a \div d)
        k == IF len > Precision THEN len - Precision ELSE 0
        step == d * Pow10(k)
        q == a \div step
        r == a - q * step
        up == 2 * r > step \/ (2 * r = step /\ q % 2 = 1)
        m == (IF up THEN q + 1 ELSE q) * Pow10(k)
    IN  IF n < 0 THEN -m ELSE m

Float(i) == i * Unit
FAdd(x, y) == RoundRat(x + y, 1)
FSub(x, y) == RoundRat(x - y, 1)
FMul(x, y) == RoundRat(x * y, Unit)
FDiv(x, y) == IF y < 0 THEN RoundRat(-(x * Unit), -y) ELSE RoundRat(x * Unit, y)

----------------------------------------------------------------------------
(* class SeverityLevel *)

SeverityLevel ==
    << [name |-> "CRITICAL", label |-> critical, weight |-> 10],
       [name |-> "WARNING", label |-> warning, weight |-> 5],
       [name |-> "INFO", label |-> info, weight |-> 1] >>

----------------------------------------------------------------------------
(* class Alert.  The fields id, metric and description are read only by    *)
(* the print_* methods and are left out.  A timestamp string is            *)
(* [valid, t, sfx]: whether its date-time part is ISO-8601, the minute it  *)
(* names, and its zone suffix: "Z", "+00:00" or "" (no zone).              *)

Alert(timestamp, service, component, severity, value, threshold) ==
    [timestamp |-> timestamp, service |-> service, component |-> component,
     severity |-> severity, value |-> value, threshold |-> threshold]

Timestamp(valid, t, sfx) == [valid |-> valid, t |-> t, sfx |-> sfx]

\* self.timestamp.replace('Z', '+00:00')
ReplaceZ(ts) == [ts EXCEPT !.sfx = IF @ = "Z" THEN "+00:00" ELSE @]

\* datetime.fromisoformat: ValueError on a malformed string (a trailing "Z"
\* is one before Python 3.11, hence the replace in get_datetime);
\* a string without an offset gives an offset-naive datetime.
FromIsoFormat(ts) ==
    IF ~ts.valid \/ ts.sfx = "Z"
    THEN [err |-> "ValueError", aware |-> FALSE, t |-> 0]
    ELSE [err |-> "", aware |-> ts.sfx = "+00:00", t |-> ts.t]

get_datetime(alert) == FromIsoFormat(ReplaceZ(alert.timestamp))

\* datetime.isoformat()
IsoFormat(d) == Timestamp(TRUE, d.t, IF d.aware THEN "+00:00" ELSE "")

\* d1 >= d2, d1 < d2, ... on datetimes: TypeError when only one is offset-aware
Comparable(d1, d2) == d1.aware = d2.aware

get_deviation_percentage(alert) ==
    IF alert.threshold = 0
    THEN 0
    ELSE FMul(FDiv(FSub(alert.value, alert.threshold), alert.threshold), Float(100))

----------------------------------------------------------------------------
(* class AlertGroup *)

AlertGroup(service, component) ==
    [service |-> service, component |-> component, alerts |-> <<>>,
     severity_counts |-> <<>>, total_alerts |-> 0]

\* dict.get(k, default) and d[k] = v
DictGet(d, k, default) == IF k \in DOMAIN d THEN d[k] ELSE default
DictSet(d, k, v) == [x \in (DOMAIN d) \cup {k} |-> IF x = k THEN v ELSE d[x]]

\* add_alert tallying under the normalised (lower-case) severity label
add_alert_normalised(group, alert) ==
    LET appended == Append(group.alerts, alert)
    IN  [group EXCEPT
            !.alerts = appended,
            !.severity_counts =
                DictSet(@, Lower(alert.severity), DictGet(@, Lower(alert.severity), 0) + 1),
            !.total_alerts = Len(appended)]

add_alert(group, alert) ==
    LET appended == Append(group.alerts, alert)
    IN  [group EXCEPT
            !.alerts = appended,
            !.severity_counts =
                DictSet(@, alert.severity, DictGet(@, alert.severity, 0) + 1),
            !.total_alerts = Len(appended)]

----------------------------------------------------------------------------
(* Lists.  A list object is [ref, items]; ref tells the processor's own    *)
(* list from one created by a call.                                        *)

SelfAlertsRef == "self.alerts"
NewListRef == "new"

NewList(items) == [ref |-> NewListRef, items |-> items]

\* The list itself in place of a copy
ListCopy_alias(l) == l

\* list.copy()
ListCopy(l) == NewList(l.items)

----------------------------------------------------------------------------
(* AlertProcessor.filter_alerts *)

\* The test with an unparseable timestamp taken as "not recent"
RecentEnough_swallowing(alert, cutoff_time) ==
    LET d == get_datetime(alert)
    IN  IF d.err # "" THEN [err |-> "", keep |-> FALSE]
        ELSE IF ~Comparable(d, cutoff_time) THEN [err |-> "TypeError", keep |-> FALSE]
        ELSE [err |-> "", keep |-> d.t >= cutoff_time.t]

\* alert.get_datetime() >= cutoff_time for one alert: [err, keep]
RecentEnough(alert, cutoff_time) ==
    LET d == get_datetime(alert)
    IN  IF d.err # "" THEN [err |-> d.err, keep |-> FALSE]
        ELSE IF ~Comparable(d, cutoff_time) THEN [err |-> "TypeError", keep |-> FALSE]
        ELSE [err |-> "", keep |-> d.t >= cutoff_time.t]

\* The list comprehension of lines 136-137: the first alert whose test
\* raises ends the call with that exception.
TimeWindowStage(items, cutoff_time) ==
    LET raises == {i \in DOMAIN items : RecentEnough(items[i], cutoff_time).err # ""}
        first == CHOOSE i \in raises : \A j \in raises : i <= j
        Keep(a) == RecentEnough(a, cutoff_time).keep
    IN  IF raises # {}
        THEN [status |-> RecentEnough(items[first], cutoff_time).err, items |-> <<>>]
        ELSE [status |-> "ok", items |-> SelectSeq(items, Keep)]

SeverityStage(l, severity) ==
    IF TruthyStr(severity)
    THEN LET wanted == Lower(Val(severity))
             Keep(a) == Lower(a.severity) = wanted
         IN  NewList(SelectSeq(l.items, Keep))
    ELSE l

ServiceStage(l, service) ==
    IF TruthyStr(service)
    THEN LET wanted == Lower(Val(service))
             Keep(a) == Lower(a.service) = wanted
         IN  NewList(SelectSeq(l.items, Keep))
    ELSE l

\* filter_alerts(severity, service, time_window_minutes) called when the
\* clock reads clock: [status, list]
FilterAlerts(self_alerts, severity, service, time_window_minutes, clock) ==
    LET copied == ListCopy(self_alerts)
        by_severity == SeverityStage(copied, severity)
        by_service == ServiceStage(by_severity, service)
    IN  IF TruthyInt(time_window_minutes)
        THEN LET cutoff_time == [err |-> "", aware |-> TRUE,
                                 t |-> clock - Val(time_window_minutes)]
                 staged == TimeWindowStage(by_service.items, cutoff_time)
             IN  [status |-> staged.status, list |-> NewList(staged.items)]
        ELSE [status |-> "ok", list |-> by_service]

----------------------------------------------------------------------------
(* AlertProcessor.group_alerts: its dict is the sequence of its entries    *)
(* [key, group] in insertion order, the order dict.values() follows.       *)

\* The dict kept from one call to the next instead of built anew
NewGroupsDict_kept(previous) == previous

\* defaultdict(lambda: AlertGroup("", ""))
NewGroupsDict(previous) == <<>>

HasKey(dict, key) == \E i \in DOMAIN dict : dict[i].key = key
IndexOf(dict, key) == CHOOSE i \in DOMAIN dict : dict[i].key = key

\* groups_dict[key]: a missing key is inserted with the default group
Touch(dict, key) ==
    IF HasKey(dict, key) THEN dict
    ELSE Append(dict, [key |-> key, group |-> AlertGroup(EmptyStr, EmptyStr)])

\* The loop body with the service alone as the key
GroupLoopBody_by_service(dict, alert) ==
    LET group_key == <<alert.service, EmptyStr>>
        d1 == Touch(dict, group_key)
        i == IndexOf(d1, group_key)
        d2 == IF d1[i].group.service = EmptyStr
              THEN [d1 EXCEPT ![i].group.service = alert.service,
                              ![i].group.component = alert.component]
              ELSE d1
    IN  [d2 EXCEPT ![i].group = add_alert(@, alert)]

\* The body of the loop of lines 157-162 for one alert
GroupLoopBody(dict, alert) ==
    LET group_key == <<alert.service, alert.component>>
        d1 == Touch(dict, group_key)
        i == IndexOf(d1, group_key)
        d2 == IF d1[i].group.service = EmptyStr
              THEN [d1 EXCEPT ![i].group.service = alert.service,
                              ![i].group.component = alert.component]
              ELSE d1
    IN  [d2 EXCEPT ![i].group = add_alert(@, alert)]

\* list(groups_dict.values())
DictValues(dict) == [i \in DOMAIN dict |-> dict[i].group]

----------------------------------------------------------------------------
(* AlertProcessor.calculate_incident_priority *)

\* The lookup with the cases of the label ignored
FindSeverityLevel_any_case(severity) ==
    LET hits == {i \in DOMAIN SeverityLevel : SeverityLevel[i].label = Lower(severity)}
    IN  IF hits = {} THEN None
        ELSE Some(SeverityLevel[CHOOSE i \in hits : \A j \in hits : i <= j])

\* next((level for level in SeverityLevel if level.label == alert.severity), None)
FindSeverityLevel(severity) ==
    LET hits == {i \in DOMAIN SeverityLevel : SeverityLevel[i].label = severity}
    IN  IF hits = {} THEN None
        ELSE Some(SeverityLevel[CHOOSE i \in hits : \A j \in hits : i <= j])

RECURSIVE SeverityScore(_)
SeverityScore(items) ==
    IF items = <<>> THEN 0
    ELSE LET n == Len(items)
             severity_level == FindSeverityLevel(items[n].severity)
             rest == SeverityScore(SubSeq(items, 1, n - 1))
         IN  IF severity_level # None THEN rest + Val(severity_level).weight ELSE rest

\* sum(deviations): left to right from 0, rounding after each addition
RECURSIVE FloatSum(_)
FloatSum(xs) ==
    IF xs = <<>> THEN 0
    ELSE FAdd(FloatSum(SubSeq(xs, 1, Len(xs) - 1)), xs[Len(xs)])

Weight_Severity == 5 * (Unit \div 10)
Weight_Deviation == 3 * (Unit \div 10)
Weight_Components == 2 * (Unit \div 10)

calculate_incident_priority(items) ==
    IF items = <<>> THEN 0
    ELSE LET severity_score == SeverityScore(items)
             deviations == [i \in DOMAIN items |-> Abs(get_deviation_percentage(items[i]))]
             avg_deviation == FDiv(FloatSum(deviations), Float(Len(deviations)))
             affected_components ==
                 Cardinality({<<items[i].service, items[i].component>> : i \in DOMAIN items})
         IN  FAdd(FAdd(FMul(Float(severity_score), Weight_Severity),
                       FMul(avg_deviation, Weight_Deviation)),
                  FMul(Float(affected_components), Weight_Components))

----------------------------------------------------------------------------
(* AlertProcessor.get_alert_summary *)

\* The defaultdict(int) tallies of lines 206-213
Distribution(items, field) ==
    [k \in {items[i][field] : i \in DOMAIN items} |->
        Cardinality({i \in DOMAIN items : items[i][field] = k})]

\* min(...) or max(...) over alert.get_datetime(): the generator parses one
\* alert at a time and compares it with the best so far: [err, best]
RECURSIVE Extreme(_, _)
Extreme(items, wantMax) ==
    LET n == Len(items)
        d == get_datetime(items[n])
        sofar == Extreme(SubSeq(items, 1, n - 1), wantMax)
    IN  IF n = 1 THEN [err |-> d.err, best |-> d]
        ELSE IF sofar.err # "" THEN sofar
        ELSE IF d.err # "" THEN [err |-> d.err, best |-> d]
        ELSE IF ~Comparable(d, sofar.best) THEN [err |-> "TypeError", best |-> d]
        ELSE IF (wantMax /\ d.t > sofar.best.t) \/ (~wantMax /\ d.t < sofar.best.t)
             THEN [err |-> "", best |-> d]
        ELSE sofar

NoSummary == [total_alerts |-> 0]

get_alert_summary(items) ==
    IF items = <<>> THEN [status |-> "ok", summary |-> NoSummary]
    ELSE LET earliest == Extreme(items, FALSE)
             latest == Extreme(items, TRUE)
         IN  IF earliest.err # "" THEN [status |-> earliest.err, summary |-> NoSummary]
             ELSE IF latest.err # "" THEN [status |-> latest.err, summary |-> NoSummary]
             ELSE [status |-> "ok",
                   summary |->
                     [total_alerts |-> Len(items),
                      severity_distribution |-> Distribution(items, "severity"),
                      service_distribution |-> Distribution(items, "service"),
                      component_distribution |-> Distribution(items, "component"),
                      time_range |-> [earliest |-> IsoFormat(earliest.best),
                                      latest |-> IsoFormat(latest.best)]]]

----------------------------------------------------------------------------
(* The processing session: one call at a time, on the alerts the           *)
(* constructor loaded.                                                     *)

NoArgs == [severity |-> None, service |-> None, time_window_minutes |-> None,
           clock |-> 0, given |-> FALSE, input |-> <<>>]
NoPrev == [some |-> FALSE, input |-> <<>>, returned |-> <<>>, live |-> <<>>, shared |-> 0]

Lists(universe, n) == UNION {[1..k -> universe] : k \in 0..n}

\* AlertProcessor(file_path): load_alerts leaves in self.alerts the alerts of
\* the file, in the file's order; nothing has been called yet.
Loaded(universe, n) ==
    /\ alerts \in {[ref |-> SelfAlertsRef, items |-> l] : l \in Lists(universe, n)}
    /\ loaded = alerts.items
    /\ now = 0
    /\ pc = "idle"
    /\ op = "init"
    /\ args = NoArgs
    /\ status = "ok"
    /\ ret = <<>>
    /\ groups_dict = <<>>
    /\ gpos = 0
    /\ prev = NoPrev

\* Time passes between calls.
Tick ==
    /\ pc = "idle"
    /\ now < MaxNow
    /\ now' = now + 1
    /\ UNCHANGED <<alerts, loaded, pc, op, args, status, ret, groups_dict, gpos, prev>>

filter_alerts(severity, service, time_window_minutes) ==
    /\ pc = "idle"
    /\ LET r == FilterAlerts(alerts, severity, service, time_window_minutes, now)
       IN  /\ status' = r.status
           /\ ret' = r.list
    /\ op' = "filter"
    /\ args' = [NoArgs EXCEPT !.severity = severity, !.service = service,
                              !.time_window_minutes = time_window_minutes,
                              !.clock = now]
    /\ groups_dict' = <<>>
    /\ gpos' = 0
    /\ prev' = NoPrev
    /\ UNCHANGED <<alerts, loaded, now, pc>>

\* The lists a caller has at hand to pass as an argument: the processor's
\* own list (main.py line 270), the list the last filter_alerts returned,
\* a slice of the processor's list.
ListsAtHand ==
    {alerts}
      \cup (IF op = "filter" /\ status = "ok" THEN {ret} ELSE {})
      \cup (IF alerts.items # <<>> THEN {NewList(Tail(alerts.items))} ELSE {})

\* group_alerts(alerts) up to the loop of line 157.  The groups the caller
\* still holds from the call just before are prev.live; prev.shared of them
\* are entries of this call's dict too.
group_alerts_begin(arg) ==
    /\ pc = "idle"
    /\ pc' = "grouping"
    /\ op' = "group"
    /\ args' = [NoArgs EXCEPT !.given = arg # None,
                              !.input = IF arg = None THEN alerts.items ELSE Val(arg).items]
    /\ status' = "running"
    /\ ret' = <<>>
    /\ groups_dict' = NewGroupsDict(groups_dict)
    /\ gpos' = 0
    /\ prev' = IF op = "group"
               THEN [some |-> TRUE, input |-> args.input, returned |-> ret.items,
                     live |-> ret.items, shared |-> Len(NewGroupsDict(groups_dict))]
               ELSE NoPrev
    /\ UNCHANGED <<alerts, loaded, now>>

\* One iteration of the loop of lines 157-162.
group_alerts_step ==
    /\ pc = "grouping"
    /\ gpos < Len(args.input)
    /\ LET alert == args.input[gpos + 1]
           dict == GroupLoopBody(groups_dict, alert)
           i == CHOOSE e \in DOMAIN dict :
                    e \notin DOMAIN groups_dict \/ dict[e] # groups_dict[e]
       IN  /\ groups_dict' = dict
           /\ prev' = IF prev.some /\ i <= prev.shared
                      THEN [prev EXCEPT !.live[i] = dict[i].group]
                      ELSE prev
    /\ gpos' = gpos + 1
    /\ UNCHANGED <<alerts, loaded, now, pc, op, args, status, ret>>

\* Lines 164-167.
group_alerts_return ==
    /\ pc = "grouping"
    /\ gpos = Len(args.input)
    /\ pc' = "idle"
    /\ status' = "ok"
    /\ ret' = NewList(DictValues(groups_dict))
    /\ UNCHANGED <<alerts, loaded, now, op, args, groups_dict, gpos, prev>>

score(list) ==
    /\ pc = "idle"
    /\ op' = "score"
    /\ args' = [NoArgs EXCEPT !.given = TRUE, !.input = list.items]
    /\ status' = "ok"
    /\ ret' = calculate_incident_priority(list.items)
    /\ groups_dict' = <<>>
    /\ gpos' = 0
    /\ prev' = NoPrev
    /\ UNCHANGED <<alerts, loaded, now, pc>>

summary ==
    /\ pc = "idle"
    /\ op' = "summary"
    /\ args' = NoArgs
    /\ LET r == get_alert_summary(alerts.items)
       IN  /\ status' = r.status
           /\ ret' = r.summary
    /\ groups_dict' = <<>>
    /\ gpos' = 0
    /\ prev' = NoPrev
    /\ UNCHANGED <<alerts, loaded, now, pc>>

Filter(severities, services, windows) ==
    \E severity \in severities, service \in services, w \in windows :
        filter_alerts(severity, service, w)

Group == \E arg \in {None} \cup {Some(l) : l \in ListsAtHand} : group_alerts_begin(arg)

Score == \E l \in ListsAtHand : score(l)

----------------------------------------------------------------------------
(* Specifications: the same operations on different families of alerts *)

UTC(t) == Timestamp(TRUE, t, "Z")
Windows == {None, Some(0), Some(1), Some(2)}

\* Grouping: keys with empty parts, repeated keys, severities in two cases
GroupUniverse ==
    {Alert(UTC(0), s, c, v, Float(95), Float(50)) :
        s \in {EmptyStr, auth}, c \in {EmptyStr, db}, v \in {critical, Critical}}

InitGroup == Loaded(GroupUniverse, MaxAlerts)
NextGroup == Group \/ group_alerts_step \/ group_alerts_return
SpecGroup == InitGroup /\ [][NextGroup]_vars

\* Filtering by severity and service: empty strings and both cases
FilterUniverse ==
    {Alert(UTC(1), s, db, v, Float(95), Float(50)) :
        s \in {EmptyStr, db, DB}, v \in {EmptyStr, info, INFO}}

InitFilter == Loaded(FilterUniverse, MaxAlerts)
NextFilter ==
    Filter({None, Some(EmptyStr), Some(info), Some(INFO)},
           {None, Some(EmptyStr), Some(db), Some(DB)}, {None})
SpecFilter == InitFilter /\ [][NextFilter]_vars

\* Filtering by service, the severity criterion absent or a label
NextService ==
    Filter({None, Some(info), Some(INFO)},
           {None, Some(EmptyStr), Some(db), Some(DB)}, {None})
SpecService == InitFilter /\ [][NextService]_vars

\* Recency: well-formed UTC timestamps of different minutes
WindowUniverse ==
    {Alert(ts, auth, db, v, Float(95), Float(50)) :
        ts \in {UTC(0), Timestamp(TRUE, 1, "+00:00"), UTC(2)}, v \in {info, critical}}

InitWindow == Loaded(WindowUniverse, MaxAlerts)
NextWindow == Tick \/ Filter({None, Some(info)}, {None}, Windows)
SpecWindow == InitWindow /\ [][NextWindow]_vars

\* Timestamps: with "Z", with "+00:00", without a zone, malformed
TimeUniverse ==
    {Alert(ts, auth, db, info, Float(95), Float(50)) :
        ts \in {UTC(0), Timestamp(TRUE, 2, "+00:00"), Timestamp(TRUE, 1, ""),
                Timestamp(FALSE, 0, "")}}
      \cup {Alert(Timestamp(FALSE, 0, ""), auth, db, critical, Float(95), Float(50))}

InitTime == Loaded(TimeUniverse, MaxAlerts)
NextTime == Tick \/ Filter({None, Some(info)}, {None}, Windows) \/ summary
SpecTime == InitTime /\ [][NextTime]_vars

\* Scoring: the catalog's labels and another case, a zero threshold
ScoreUniverse ==
    {Alert(UTC(0), payment_processor, c, v, Float(x[1]), Float(x[2])) :
        c \in {db, auth}, v \in {critical, Critical, warning, info},
        x \in {<<95, 50>>, <<10, 10>>, <<5, 0>>}}

InitScore == Loaded(ScoreUniverse, MaxScoreAlerts)
NextScore == Score
SpecScore == InitScore /\ [][NextScore]_vars

\* Scoring in every order: deviations of different magnitudes
OrderUniverse ==
    {Alert(UTC(0), payment_processor, c, v, x[1], x[2]) :
        c \in {db, auth}, v \in {critical, info},
        x \in {<<Float(20), Float(10)>>, <<Float(50) + Unit \div 5, Float(50)>>,
               <<Float(95), Float(50)>>}}

InitOrder == Loaded(OrderUniverse, MaxAlerts)
SpecOrder == InitOrder /\ [][NextScore]_vars

\* A whole session: every operation, in any order
SessionUniverse ==
    {Alert(ts, s, db, info, Float(95), Float(50)) :
        ts \in {UTC(1), Timestamp(FALSE, 0, "")}, s \in {EmptyStr, auth}}

Init == Loaded(SessionUniverse, MaxSessionAlerts)
Next ==
    \/ Tick
    \/ Filter({None, Some(critical)}, {None, Some(auth)}, {None, Some(1)})
    \/ Group
    \/ group_alerts_step
    \/ group_alerts_return
    \/ Score
    \/ summary
Spec == Init /\ [][Next]_vars

----------------------------------------------------------------------------
(* Properties *)

Count(seq, x) == Cardinality({i \in DOMAIN seq : seq[i] = x})
KeyOf(a) == <<a.service, a.component>>

RECURSIVE SumTotals(_)
SumTotals(gs) ==
    IF gs = <<>> THEN 0
    ELSE gs[Len(gs)].total_alerts + SumTotals(SubSeq(gs, 1, Len(gs) - 1))

RECURSIVE SumValues(_)
SumValues(f) ==
    IF DOMAIN f = {} THEN 0
    ELSE LET k == CHOOSE x \in DOMAIN f : TRUE
         IN  f[k] + SumValues([x \in (DOMAIN f) \ {k} |-> f[x]])

GroupReturned == op = "group" /\ pc = "idle"

\* C1: after group_alerts, every input alert is in exactly one returned
\* group, whose (service, component) is the alert's, no alert is lost or
\* repeated, and the groups' total_alerts add up to the length of the input.
C1_GroupsPartitionInput ==
    GroupReturned =>
        LET gs == ret.items
            input == args.input
        IN  /\ \A i \in DOMAIN input :
                 Cardinality({g \in DOMAIN gs : Count(gs[g].alerts, input[i]) > 0}) = 1
            /\ \A i \in DOMAIN input :
                 \A g \in DOMAIN gs :
                    Count(gs[g].alerts, input[i]) \in {0, Count(input, input[i])}
            /\ \A g \in DOMAIN gs : \A j \in DOMAIN gs[g].alerts :
                 /\ KeyOf(gs[g].alerts[j]) = <<gs[g].service, gs[g].component>>
                 /\ Count(input, gs[g].alerts[j]) > 0
            /\ SumTotals(gs) = Len(input)

\* C1 witness: a pass over three alerts, one key with an empty service seen
\* twice and a key with both parts empty, has returned two groups.
C1_Witness ==
    /\ GroupReturned
    /\ Len(args.input) = 3
    /\ Len(ret.items) = 2
    /\ \E i, j \in DOMAIN args.input :
          /\ i # j
          /\ KeyOf(args.input[i]) = KeyOf(args.input[j])
          /\ args.input[i].service = EmptyStr
          /\ args.input[i].component # EmptyStr
    /\ \E i \in DOMAIN args.input : KeyOf(args.input[i]) = <<EmptyStr, EmptyStr>>

\* The distinct keys of a list of alerts, in the order each first appears
FirstAppearance(input) ==
    LET firsts == {i \in DOMAIN input :
                      \A j \in 1..(i - 1) : KeyOf(input[j]) # KeyOf(input[i])}
        Nth(n) == CHOOSE i \in firsts : Cardinality({j \in firsts : j < i}) = n - 1
    IN  [n \in 1..Cardinality(firsts) |-> KeyOf(input[Nth(n)])]

\* C2: group_alerts returns one group per distinct key, in the order the
\* keys first appear in the input, each group's alerts in input order; a
\* second call on the same input returns the same sequence of groups, and
\* never changes the groups the first call returned.
C2_FirstAppearanceOrder ==
    /\ GroupReturned =>
         LET gs == ret.items
             input == args.input
         IN  /\ [g \in DOMAIN gs |-> <<gs[g].service, gs[g].component>>]
                   = FirstAppearance(input)
             /\ \A g \in DOMAIN gs :
                   LET Mine(a) == KeyOf(a) = <<gs[g].service, gs[g].component>>
                   IN  gs[g].alerts = SelectSeq(input, Mine)
             /\ (prev.some /\ prev.input = input) => gs = prev.returned
    /\ prev.some => prev.live = prev.returned

\* C2 witness: a second call on the same three alerts has returned, two
\* groups each time, the first key seen again after the second.
C2_Witness ==
    /\ GroupReturned
    /\ prev.some
    /\ prev.input = args.input
    /\ Len(args.input) = 3
    /\ Len(ret.items) = 2
    /\ KeyOf(args.input[1]) = KeyOf(args.input[3])

\* C3: after every add_alert of a grouping pass, every group has
\* total_alerts = len(alerts), its severity_counts add up to total_alerts,
\* and severity_counts counts the alerts of each raw severity string.
C3_GroupTallies ==
    op = "group" =>
        \A e \in DOMAIN groups_dict :
            LET g == groups_dict[e].group
            IN  /\ g.total_alerts = Len(g.alerts)
                /\ SumValues(g.severity_counts) = g.total_alerts
                /\ DOMAIN g.severity_counts = {g.alerts[j].severity : j \in DOMAIN g.alerts}
                /\ \A sev \in DOMAIN g.severity_counts :
                      g.severity_counts[sev]
                        = Cardinality({j \in DOMAIN g.alerts : g.alerts[j].severity = sev})

\* C3 witness: in the middle of a pass, a group holds two alerts, one of
\* them tallied under a severity that is no catalog label.
C3_Witness ==
    /\ pc = "grouping"
    /\ gpos < Len(args.input)
    /\ \E e \in DOMAIN groups_dict :
          /\ groups_dict[e].group.total_alerts = 2
          /\ DOMAIN groups_dict[e].group.severity_counts = {critical, Critical}

\* Two strings are equal ignoring case: the same length and, place by
\* place, the same character or the two cases of one letter
SameLetter(c, d) ==
    \/ c = d
    \/ \E i \in DOMAIN UpperLetters : {c, d} = {UpperLetters[i], LowerLetters[i]}

EqIgnoreCase(s, t) ==
    /\ Len(s) = Len(t)
    /\ \A i \in DOMAIN s : SameLetter(s[i], t[i])

\* C4: for every severity string S, filter_alerts(severity=S) returns only
\* alerts whose severity is S ignoring case, and these together with the
\* alerts whose severity is not S ignoring case are the original alerts,
\* none lost and none twice.
C4_SeverityFilterEveryString ==
    (/\ op = "filter"
     /\ args.severity # None
     /\ args.service = None
     /\ args.time_window_minutes = None) =>
        LET S == Val(args.severity)
            Differs(a) == ~EqIgnoreCase(a.severity, S)
            others == SelectSeq(alerts.items, Differs)
        IN  /\ status = "ok"
            /\ \A i \in DOMAIN ret.items : EqIgnoreCase(ret.items[i].severity, S)
            /\ \A i \in DOMAIN alerts.items :
                  Count(ret.items, alerts.items[i]) + Count(others, alerts.items[i])
                    = Count(alerts.items, alerts.items[i])

\* C4 for the non-empty strings S only, which the code satisfies.
C4_SeverityFilterNonEmpty ==
    (args.severity # None /\ Val(args.severity) = EmptyStr) \/ C4_SeverityFilterEveryString

\* C6: filter_alerts(service=V) returns exactly the alerts whose service is
\* V ignoring case, in their original order, with a severity S also given
\* exactly those that match both, and filtering the result by V again
\* gives the same sequence.
C6_ServiceFilterExact ==
    (/\ op = "filter"
     /\ args.service # None
     /\ args.time_window_minutes = None) =>
        LET V == Val(args.service)
            Both(a) == /\ EqIgnoreCase(a.service, V)
                       /\ args.severity # None => EqIgnoreCase(a.severity, Val(args.severity))
            again == FilterAlerts(ret, None, args.service, None, args.clock)
        IN  /\ status = "ok"
            /\ ret.items = SelectSeq(alerts.items, Both)
            /\ again.status = "ok"
            /\ again.list.items = ret.items

\* C6 with no empty string given as a criterion, which the code satisfies.
C6_ServiceFilterNonEmpty ==
    \/ args.service # None /\ Val(args.service) = EmptyStr
    \/ args.severity # None /\ Val(args.severity) = EmptyStr
    \/ C6_ServiceFilterExact

\* The parsed time of an alert is at least t.
ParsedTimeAtLeast(a, t) == a.timestamp.valid /\ a.timestamp.t >= t

\* C5: whenever a recency window W >= 0 is given to filter_alerts, the
\* result is exactly the alerts that pass the other criteria and whose
\* parsed time is at least the clock at the call minus W.
C5_RecencyWindowEveryW ==
    (/\ op = "filter"
     /\ status = "ok"
     /\ args.time_window_minutes # None) =>
        LET W == Val(args.time_window_minutes)
            Wanted(a) ==
                /\ args.severity # None => EqIgnoreCase(a.severity, Val(args.severity))
                /\ args.service # None => EqIgnoreCase(a.service, Val(args.service))
                /\ ParsedTimeAtLeast(a, args.clock - W)
        IN  ret.items = SelectSeq(alerts.items, Wanted)

\* C5 for the windows W > 0 only, which the code satisfies.
C5_RecencyWindowPositive ==
    (args.time_window_minutes # None /\ Val(args.time_window_minutes) = 0)
      \/ C5_RecencyWindowEveryW

\* A timestamp no ISO-8601 parser accepts, one that parses without a zone,
\* and one that parses with a zone
Unparseable(a) == ~a.timestamp.valid
Naive(a) == a.timestamp.valid /\ a.timestamp.sfx = ""
Aware(a) == a.timestamp.valid /\ a.timestamp.sfx # ""

\* The alerts that pass the severity and service criteria of the last call
PassOthers(a) ==
    /\ args.severity # None => EqIgnoreCase(a.severity, Val(args.severity))
    /\ args.service # None => EqIgnoreCase(a.service, Val(args.service))

\* The last call was a filter_alerts whose recency check ran
RecencyChecked == op = "filter" /\ TruthyInt(args.time_window_minutes)

FirstUnparseable(items) ==
    CHOOSE i \in DOMAIN items :
        Unparseable(items[i]) /\ \A j \in 1..(i - 1) : ~Unparseable(items[j])

\* What holds of every call, whatever the offsets of the timestamps: an empty
\* collection is summarised as total_alerts = 0, and filter_alerts never
\* returns a list from which an alert with an unparseable timestamp that
\* passes the other criteria is missing.
NeverDropped ==
    /\ (op = "summary" /\ alerts.items = <<>>) =>
          status = "ok" /\ ret = [total_alerts |-> 0]
    /\ (op = "filter" /\ status = "ok") =>
          \A i \in DOMAIN alerts.items :
              (Unparseable(alerts.items[i]) /\ PassOthers(alerts.items[i])) =>
                  Count(ret.items, alerts.items[i]) = Count(alerts.items, alerts.items[i])

DeviationPercent(a) ==
    IF a.threshold = 0 THEN 0
    ELSE FMul(FDiv(FSub(a.value, a.threshold), a.threshold), Float(100))

FormulaScore(items) ==
    LET With(label) == Cardinality({i \in DOMAIN items : items[i].severity = label})
        severityScore == 10 * With(critical) + 5 * With(warning) + 1 * With(info)
        avgDeviation ==
            FDiv(FloatSum([i \in DOMAIN items |-> Abs(DeviationPercent(items[i]))]),
                 Float(Len(items)))
        affectedComponents == Cardinality({KeyOf(items[i]) : i \in DOMAIN items})
    IN  FAdd(FAdd(FMul(5 * (Unit \div 10), Float(severityScore)),
                  FMul(3 * (Unit \div 10), avgDeviation)),
             FMul(2 * (Unit \div 10), Float(affectedComponents)))

\* The scenario of two alerts: critical 95/50 and info 10/10 of
\* payment-processor/db
Scenario ==
    << Alert(UTC(0), payment_processor, db, critical, Float(95), Float(50)),
       Alert(UTC(0), payment_processor, db, info, Float(10), Float(10)) >>

\* C7: for a non-empty list calculate_incident_priority returns
\* 0.5*severityScore + 0.3*avgDeviation + 0.2*affectedComponents, with
\* weights 10/5/1 for the severities that are exactly "critical", "warning",
\* "info" and 0 for any other, the mean of |deviation| (0 for a threshold of
\* 0) and the number of distinct (service, component); the scenario scores 19.2.
C7_ScoreFormula ==
    (op = "score" /\ args.input # <<>>) =>
        /\ ret = FormulaScore(args.input)
        /\ args.input = Scenario => ret = 192 * (Unit \div 10)

\* C7 witness: the scenario has been scored 19.2.
C7_Witness ==
    /\ op = "score"
    /\ args.input = Scenario
    /\ ret = 192 * (Unit \div 10)

\* The orders of a list
OrdersOf(items) ==
    LET n == Len(items)
        ps == {p \in [1..n -> 1..n] : \A i, j \in 1..n : p[i] = p[j] => i = j}
    IN  {[i \in 1..n |-> items[p[i]]] : p \in ps}

\* C8: calculate_incident_priority returns 0.0 for the empty list, and the
\* same score for every order of a list.
C8_ScoreOrderInvariant ==
    op = "score" =>
        /\ args.input = <<>> => ret = 0
        /\ \A p \in OrdersOf(args.input) : calculate_incident_priority(p) = ret

\* C9: whatever has been called, the processor's collection is the one the
\* constructor loaded, the same alerts in the same order, and the list
\* filter_alerts returns is not the processor's own list.
C9_CollectionUnchanged ==
    /\ alerts = [ref |-> SelfAlertsRef, items |-> loaded]
    /\ (op = "filter" /\ status = "ok") => ret.ref # alerts.ref

\* C9 witness: after time has passed, a filter_alerts with no criterion has
\* returned both loaded alerts.
C9_Witness ==
    /\ op = "filter"
    /\ args.severity = None /\ args.service = None /\ args.time_window_minutes = None
    /\ Len(loaded) = 2
    /\ ret.items = loaded
    /\ now > 0

====
